---- MODULE Spec2Model ----
(***************************************************************************)
(* Model of src/dashboard.py: a Streamlit script that is executed top to   *)
(* bottom on every user interaction.  One run of the script is a sequence  *)
(* of steps (load, validate columns, parse dates, sidebar, filter, render) *)
(* tracked by pc; the user's widget state lives in session and survives a  *)
(* re-run, everything else is recomputed.                                  *)
(*                                                                         *)
(* Text is modelled as sequences of code points, so that sorting,          *)
(* whitespace stripping, date parsing, CSV quoting and UTF-8 encoding are  *)
(* computed the way the code computes them.                                *)
(***************************************************************************)
EXTENDS Integers, Sequences, FiniteSets, TLC

VARIABLES
    file,                   \* data-vtr.csv as found on disk
    session,                \* Streamlit widget state kept across re-runs
    pc,                     \* position of the current run in the script
    data,                   \* the DataFrame `data` (sequence of rows)
    columns,                \* data.columns
    errors,                 \* st.error messages shown in this run
    rendered,               \* elements rendered in this run
    pi_unique, cam_unique, nome_coloquial_unique,
    year_min, year_max,
    pi_filter, cam_filter, nome_coloquial_filter, year_range,
    filtered_data,
    total_eo, total_po,
    yearly_eo_po, yearly_cam_data,
    year_options, selected_year,
    year_filtered_data, process_summary,
    grid_data, download_data

vars == <<file, session, pc, data, columns, errors, rendered,
          pi_unique, cam_unique, nome_coloquial_unique, year_min, year_max,
          pi_filter, cam_filter, nome_coloquial_filter, year_range,
          filtered_data, total_eo, total_po, yearly_eo_po, yearly_cam_data,
          year_options, selected_year, year_filtered_data, process_summary,
          grid_data, download_data>>

\* ------------------------------------------------------------------ bounds

\* Largest number of data rows in the input file.
MaxRows == 2

\* Largest number of required columns the input file lacks.
MaxMissing == 2

\* ------------------------------------------------------------ text helpers

Range(s) == {s[i] : i \in 1..Len(s)}

MinOf(S) == CHOOSE x \in S : \A y \in S : x <= y

MaxOf(S) == CHOOSE x \in S : \A y \in S : x >= y

\* F(x), with x evaluated once, before F is applied to it.
Eager(F(_), x) == CHOOSE r \in {F(t) : t \in {x}} : TRUE

\* Characters removed by str.strip(): space, tab, LF, VT, FF, CR.
IsSpace(c) == c \in {32, 9, 10, 11, 12, 13}

\* str.strip(), as applied to every column name by data.columns.str.strip():
\* what lies between the first and the last character that is not a blank.
Strip(s) ==
    LET kept == {i \in 1..Len(s) : ~IsSpace(s[i])}
    IN  IF kept = {} THEN <<>> ELSE SubSeq(s, MinOf(kept), MaxOf(kept))

\* Python's ordering of str: lexicographic by code point.
LexLess(a, b) ==
    \E k \in 1..(Len(b)) :
        /\ \A j \in 1..(k - 1) : j <= Len(a) /\ a[j] = b[j]
        /\ (k > Len(a) \/ a[k] < b[k])

\* sorted(series.unique()) for a column of strings: each value at the place
\* given by the number of values below it.
SortedStr(S) ==
    [i \in 1..Cardinality(S) |->
        CHOOSE x \in S : Cardinality({y \in S : LexLess(y, x)}) = i - 1]

\* Ascending sequence of a set of integers (groupby sorts its keys).
SortedInt(S) ==
    [i \in 1..Cardinality(S) |->
        CHOOSE x \in S : Cardinality({y \in S : y < x}) = i - 1]

IsDigit(c) == c \in 48..57

\* int(s) for a string of decimal digits.
RECURSIVE ParseNatTo(_, _)
ParseNatTo(s, n) ==
    IF n = 0 THEN 0 ELSE 10 * ParseNatTo(s, n - 1) + (s[n] - 48)

ParseNat(s) == ParseNatTo(s, Len(s))

\* str(n) for a natural number.
RECURSIVE FormatNat(_)
FormatNat(n) ==
    IF n < 10 THEN <<48 + n>> ELSE FormatNat(n \div 10) \o <<48 + (n % 10)>>

\* n written with at least w digits (zero padded), as in %02d / %04d.
ZeroPad(s, w) ==
    IF Len(s) >= w THEN s ELSE [i \in 1..(w - Len(s)) |-> 48] \o s

\* s.split(sep) for a one-character separator.
\* The parts lie between consecutive separators (and the two ends).
SplitOn(s, sep) ==
    LET cuts == SortedInt({0, Len(s) + 1} \cup {i \in 1..Len(s) : s[i] = sep})
    IN  [p \in 1..(Len(cuts) - 1) |-> SubSeq(s, cuts[p] + 1, cuts[p + 1] - 1)]

\* ----------------------------------------------------------- column names

\* The column names of the script, as text.
ColName(f) ==
    CASE f = "DATA"           -> <<68, 65, 84, 65>>
      [] f = "PI"             -> <<80, 73>>
      [] f = "CAM"            -> <<67, 65, 77>>
      [] f = "TIPO"           -> <<84, 73, 80, 79>>
      [] f = "QTDE"           -> <<81, 84, 68, 69>>
      [] f = "NOME_COLOQUIAL" -> <<78, 79, 77, 69, 95, 67, 79, 76, 79, 81, 85, 73, 65, 76>>
      [] f = "PROCESSO_AIP"   -> <<80, 82, 79, 67, 69, 83, 83, 79, 95, 65, 73, 80>>
      [] f = "YEAR"           -> <<89, 69, 65, 82>>

\* The columns of the input file the script works with, in file order.
FileColumns ==
    <<"DATA", "PI", "CAM", "TIPO", "QTDE", "NOME_COLOQUIAL", "PROCESSO_AIP">>

\* The values the script compares cells with.
B001 == <<66, 48, 48, 49>>

EO == <<69, 79>>

PO == <<80, 79>>

\* ------------------------------------------------------------- input files

\* Candidate data rows of the file (cells as read by read_csv; QTDE numeric).
\*   05/01/2022  A  B001  EO   5  n1    p1
\*   05/01/2022  A  B001  PO   3  n1    p1
\*   31/12/2023  B  A100  EO  12  a,"b  p2
\*   31/12/2023  B  B001  XX   7  a,"b  pã     (a TIPO that is neither EO nor PO)
\*   2022-01-05  A  A100  PO   1  n1    p1     (a date not in %d/%m/%Y)
RowPool ==
    { [DATA |-> <<48, 53, 47, 48, 49, 47, 50, 48, 50, 50>>, PI |-> <<65>>,
       CAM |-> B001, TIPO |-> EO, QTDE |-> 5,
       NOME_COLOQUIAL |-> <<110, 49>>, PROCESSO_AIP |-> <<112, 49>>],
      [DATA |-> <<48, 53, 47, 48, 49, 47, 50, 48, 50, 50>>, PI |-> <<65>>,
       CAM |-> B001, TIPO |-> PO, QTDE |-> 3,
       NOME_COLOQUIAL |-> <<110, 49>>, PROCESSO_AIP |-> <<112, 49>>],
      [DATA |-> <<51, 49, 47, 49, 50, 47, 50, 48, 50, 51>>, PI |-> <<66>>,
       CAM |-> <<65, 49, 48, 48>>, TIPO |-> EO, QTDE |-> 12,
       NOME_COLOQUIAL |-> <<97, 44, 34, 98>>, PROCESSO_AIP |-> <<112, 50>>],
      [DATA |-> <<51, 49, 47, 49, 50, 47, 50, 48, 50, 51>>, PI |-> <<66>>,
       CAM |-> B001, TIPO |-> <<88, 88>>, QTDE |-> 7,
       NOME_COLOQUIAL |-> <<97, 44, 34, 98>>, PROCESSO_AIP |-> <<112, 227>>],
      [DATA |-> <<50, 48, 50, 50, 45, 48, 49, 45, 48, 53>>, PI |-> <<65>>,
       CAM |-> <<65, 49, 48, 48>>, TIPO |-> PO, QTDE |-> 1,
       NOME_COLOQUIAL |-> <<110, 49>>, PROCESSO_AIP |-> <<112, 49>>] }

\* Sequences over S of length at most n.
SeqUpTo(S, n) == UNION {[1..k -> S] : k \in 0..n}

\* A header line: the required columns except those in `missing`, the first
\* and the last of them written with surrounding blanks when `padded`.
HeaderOf(missing, padded) ==
    LET present == SelectSeq(FileColumns, LAMBDA f : f \notin missing)
    IN  [i \in 1..Len(present) |->
            IF padded /\ i = 1 THEN <<32>> \o ColName(present[i])
            ELSE IF padded /\ i = Len(present) THEN ColName(present[i]) \o <<32, 9>>
            ELSE ColName(present[i])]

\* The fields of a row that the header has a column for.
FieldsOf(header) ==
    UNION { {f \in Range(FileColumns) : ColName(f) = name} :
            name \in {Strip(header[i]) : i \in 1..Len(header)} }

\* A row cut down to the columns the file has.
Restrict(r, fields) == [f \in fields |-> r[f]]

\* The files the script may find at "data-vtr.csv": none, one that read_csv
\* cannot read, or a table with a header line and data rows.  Padded headers
\* come with at most one data row: once the names are stripped the run does
\* not depend on the padding.
Files ==
    {[kind |-> "absent"], [kind |-> "unreadable"]}
    \cup
    UNION { { [kind |-> "csv", header |-> HeaderOf(missing, padded),
               rows |-> [i \in DOMAIN rows |->
                            Restrict(rows[i], Range(FileColumns) \ missing)]] :
                missing \in {m \in SUBSET Range(FileColumns) : Cardinality(m) <= MaxMissing},
                padded \in IF Len(rows) <= 1 THEN BOOLEAN ELSE {FALSE} } :
            rows \in SeqUpTo(RowPool, MaxRows) }

\* ------------------------------------------------------------ date parsing

IsLeap(y) == (y % 4 = 0 /\ y % 100 # 0) \/ y % 400 = 0

DaysInMonth(m, y) ==
    IF m = 2 THEN (IF IsLeap(y) THEN 29 ELSE 28)
    ELSE IF m \in {4, 6, 9, 11} THEN 30 ELSE 31

AllDigits(s) == s # <<>> /\ \A i \in 1..Len(s) : IsDigit(s[i])

\* pd.to_datetime(cell, format="%d/%m/%Y") for one cell: day/month/year
\* separated by "/", the year of four digits; anything else raises.
ParseDateParts(parts) ==
    LET wellFormed ==
            /\ Len(parts) = 3
            /\ \A i \in 1..3 : AllDigits(parts[i])
            /\ Len(parts[1]) <= 2 /\ Len(parts[2]) <= 2 /\ Len(parts[3]) = 4
        d == ParseNat(parts[1])
        m == ParseNat(parts[2])
        y == ParseNat(parts[3])
    IN  IF wellFormed /\ m \in 1..12 /\ y >= 1 /\ d \in 1..DaysInMonth(m, y)
        THEN [ok |-> TRUE, day |-> d, month |-> m, year |-> y]
        ELSE [ok |-> FALSE, day |-> 0, month |-> 0, year |-> 0]

ParseDate(s) == Eager(ParseDateParts, SplitOn(s, 47))

\* ------------------------------------------------------------------- state

\* Widget state of a fresh browser session: nothing selected, the slider and
\* the select box not yet created.
FreshSession ==
    [pi |-> {}, cam |-> {}, nome |-> {}, slider |-> <<>>,
     selectbox |-> [options |-> <<>>, value |-> 0]]

\* The script's variables at the start of a run.
StartOfRun ==
    /\ pc = "load"
    /\ data = <<>> /\ columns = <<>>
    /\ errors = <<>> /\ rendered = {}
    /\ pi_unique = <<>> /\ cam_unique = <<>> /\ nome_coloquial_unique = <<>>
    /\ year_min = 0 /\ year_max = 0
    /\ pi_filter = {} /\ cam_filter = {} /\ nome_coloquial_filter = {}
    /\ year_range = <<0, 0>>
    /\ filtered_data = <<>>
    /\ total_eo = 0 /\ total_po = 0
    /\ yearly_eo_po = {} /\ yearly_cam_data = {}
    /\ year_options = <<>> /\ selected_year = 0
    /\ year_filtered_data = <<>> /\ process_summary = {}
    /\ grid_data = <<>> /\ download_data = <<>>

Init ==
    /\ file \in Files
    /\ session = FreshSession
    /\ StartOfRun

sidebarVars == <<pi_unique, cam_unique, nome_coloquial_unique, year_min, year_max,
                 pi_filter, cam_filter, nome_coloquial_filter, year_range>>

renderVars == <<total_eo, total_po, yearly_eo_po, yearly_cam_data,
                year_options, selected_year, year_filtered_data, process_summary,
                grid_data, download_data>>

\* ------------------------------------------------------------------ loader

\* st.error(...) without the st.stop(): the script goes on to its next block.
ErrorNoStop(msg) ==
    /\ errors' = Append(errors, msg)
    /\ rendered' = rendered \cup {"error"}
    /\ pc' = IF pc = "load" THEN "validate"
             ELSE IF pc = "validate" THEN "parse" ELSE "sidebar"

\* st.error(...) followed by st.stop().
ErrorAndStop(msg) ==
    /\ errors' = Append(errors, msg)
    /\ rendered' = rendered \cup {"error"}
    /\ pc' = "stopped"

\* read_csv raises FileNotFoundError.
LoadFileNotFound ==
    /\ pc = "load"
    /\ file.kind = "absent"
    /\ ErrorAndStop([kind |-> "file_not_found", columns |-> <<>>])
    /\ UNCHANGED <<file, session, data, columns, sidebarVars, filtered_data, renderVars>>

\* read_csv raises any other exception.
LoadException ==
    /\ pc = "load"
    /\ file.kind = "unreadable"
    /\ ErrorAndStop([kind |-> "load_failed", columns |-> <<>>])
    /\ UNCHANGED <<file, session, data, columns, sidebarVars, filtered_data, renderVars>>

\* LoadOk without data.columns.str.strip(): the names stay as in the file.
LoadOkNoStrip ==
    /\ pc = "load"
    /\ file.kind = "csv"
    /\ data' = [i \in 1..Len(file.rows) |->
                  [f \in DOMAIN file.rows[i] \cup {"idx"} |->
                      IF f = "idx" THEN i - 1 ELSE file.rows[i][f]]]
    /\ columns' = file.header
    /\ pc' = "validate"
    /\ UNCHANGED <<file, session, errors, rendered, sidebarVars, filtered_data, renderVars>>

\* read_csv succeeds; the column names are stripped.  Rows get the default
\* RangeIndex (idx), which is what tells two equal rows apart.
LoadOk ==
    /\ pc = "load"
    /\ file.kind = "csv"
    /\ data' = [i \in 1..Len(file.rows) |->
                  [f \in DOMAIN file.rows[i] \cup {"idx"} |->
                      IF f = "idx" THEN i - 1 ELSE file.rows[i][f]]]
    /\ columns' = [i \in 1..Len(file.header) |-> Strip(file.header[i])]
    /\ pc' = "validate"
    /\ UNCHANGED <<file, session, errors, rendered, sidebarVars, filtered_data, renderVars>>

required_columns ==
    <<"DATA", "PI", "CAM", "TIPO", "QTDE", "NOME_COLOQUIAL", "PROCESSO_AIP">>

\* [col for col in required_columns if col not in data.columns]
missing_columns ==
    SelectSeq(required_columns, LAMBDA f : ColName(f) \notin Range(columns))

\* if missing_columns: st.error(...); st.stop()
MissingColumns ==
    /\ pc = "validate"
    /\ missing_columns # <<>>
    /\ ErrorAndStop([kind |-> "missing_columns", columns |-> missing_columns])
    /\ UNCHANGED <<file, session, data, columns, sidebarVars, filtered_data, renderVars>>

ColumnsOk ==
    /\ pc = "validate"
    /\ missing_columns = <<>>
    /\ pc' = "parse"
    /\ UNCHANGED <<file, session, data, columns, errors, rendered, sidebarVars,
                   filtered_data, renderVars>>

\* Whether pd.to_datetime(data["DATA"], ...) returns: the column exists and
\* every cell parses.
DatesParse ==
    /\ ColName("DATA") \in Range(columns)
    /\ \A i \in 1..Len(data) : ParseDate(data[i].DATA).ok

\* data["DATA"] = pd.to_datetime(...); data["YEAR"] = data["DATA"].dt.year
ParseOk ==
    /\ pc = "parse"
    /\ DatesParse
    /\ data' = [i \in 1..Len(data) |->
                  LET r == data[i]
                      dt == ParseDate(r.DATA)
                  IN  [f \in DOMAIN r \cup {"YEAR"} |->
                          IF f = "YEAR" THEN dt.year
                          ELSE IF f = "DATA" THEN <<dt.year, dt.month, dt.day>>
                          ELSE r[f]]]
    /\ columns' = Append(columns, ColName("YEAR"))
    /\ pc' = "sidebar"
    /\ UNCHANGED <<file, session, errors, rendered, sidebarVars, filtered_data, renderVars>>

\* except Exception: st.error(...); st.stop()
ParseError ==
    /\ pc = "parse"
    /\ ~DatesParse
    /\ ErrorAndStop([kind |-> "parse_failed", columns |-> <<>>])
    /\ UNCHANGED <<file, session, data, columns, sidebarVars, filtered_data, renderVars>>

\* ----------------------------------------------------------------- sidebar

Column(d, f) == {d[i][f] : i \in 1..Len(d)}

\* if "B001" in cam_unique: cam_unique.remove("B001"); cam_unique.insert(0, "B001")
PinB001(options) ==
    IF B001 \in Range(options)
    THEN <<B001>> \o SelectSeq(options, LAMBDA c : c # B001)
    ELSE options

\* PI options narrowed by the CAM selection (a cascading filter).
PiOptionsCascading(d) ==
    SortedStr(Column(IF session.cam = {} THEN d
                     ELSE SelectSeq(d, LAMBDA r : r.CAM \in session.cam), "PI"))

\* The option lists of the three multiselects.
PiOptions(d) == SortedStr(Column(d, "PI"))

CamOptions(d) == PinB001(SortedStr(Column(d, "CAM")))

NomeOptions(d) == SortedStr(Column(d, "NOME_COLOQUIAL"))

sidebarWidgets ==
    {"sidebar_image", "sidebar_title", "pi_multiselect", "cam_multiselect",
     "nome_multiselect"}

\* Lines 35-78 on a dataset with at least one row: the option lists, the
\* three multiselects (returning the session's selections), the year bounds
\* and the slider (returning the session's range, the full range by default).
Sidebar ==
    /\ pc = "sidebar"
    /\ data # <<>>
    /\ pi_unique' = PiOptions(data)
    /\ cam_unique' = CamOptions(data)
    /\ nome_coloquial_unique' = NomeOptions(data)
    /\ pi_filter' = session.pi
    /\ cam_filter' = session.cam
    /\ nome_coloquial_filter' = session.nome
    /\ year_min' = MinOf(Column(data, "YEAR"))
    /\ year_max' = MaxOf(Column(data, "YEAR"))
    /\ year_range' = IF session.slider = <<>> THEN <<year_min', year_max'>>
                     ELSE session.slider
    /\ session' = [session EXCEPT !.slider = year_range']
    /\ rendered' = rendered \cup sidebarWidgets \cup {"year_slider"}
    /\ pc' = "filter"
    /\ UNCHANGED <<file, data, columns, errors, filtered_data, renderVars>>

\* Lines 35-71 on a dataset without rows: data["YEAR"].min() is NaN and
\* int(NaN) raises ValueError, which nothing catches; the run ends there,
\* after the multiselects and before the slider.
SidebarNoRows ==
    /\ pc = "sidebar"
    /\ data = <<>>
    /\ pi_unique' = PiOptions(data)
    /\ cam_unique' = CamOptions(data)
    /\ nome_coloquial_unique' = NomeOptions(data)
    /\ pi_filter' = session.pi
    /\ cam_filter' = session.cam
    /\ nome_coloquial_filter' = session.nome
    /\ rendered' = rendered \cup sidebarWidgets
    /\ pc' = "crashed"
    /\ UNCHANGED <<file, session, data, columns, errors, year_min, year_max,
                   year_range, filtered_data, renderVars>>

\* ------------------------------------------------------------------ filter

\* The year mask with the upper end of the range left out.
YearMaskExclusive(d, yr) == SelectSeq(d, LAMBDA r : r.YEAR >= yr[1] /\ r.YEAR < yr[2])

\* data[(data["YEAR"] >= year_range[0]) & (data["YEAR"] <= year_range[1])]
YearMask(d, yr) == SelectSeq(d, LAMBDA r : r.YEAR >= yr[1] /\ r.YEAR <= yr[2])

\* df[df[f].isin(selection)]
IsIn(d, f, selection) == SelectSeq(d, LAMBDA r : r[f] \in selection)

\* The filters without the `if selection:` guards: an empty selection
\* then keeps no row.
ApplyFiltersAlways(d, yr, pi, cam, nome) ==
    IsIn(IsIn(IsIn(YearMask(d, yr), "PI", pi), "CAM", cam), "NOME_COLOQUIAL", nome)

\* Lines 81-88: the year mask, then each categorical filter that is not empty.
ApplyFilters(d, yr, pi, cam, nome) ==
    LET byYear == YearMask(d, yr)
        byPi   == IF pi # {} THEN IsIn(byYear, "PI", pi) ELSE byYear
        byCam  == IF cam # {} THEN IsIn(byPi, "CAM", cam) ELSE byPi
    IN  IF nome # {} THEN IsIn(byCam, "NOME_COLOQUIAL", nome) ELSE byCam

Filter ==
    /\ pc = "filter"
    /\ filtered_data' = ApplyFilters(data, year_range, pi_filter, cam_filter,
                                     nome_coloquial_filter)
    /\ rendered' = rendered \cup {"main_title"}
    /\ pc' = "render"
    /\ UNCHANGED <<file, session, data, columns, errors, sidebarVars, renderVars>>

\* -------------------------------------------------------------- aggregator

\* Sum of the QTDE column of a sequence of rows.
RECURSIVE SumQtdeTo(_, _)
SumQtdeTo(d, n) == IF n = 0 THEN 0 ELSE SumQtdeTo(d, n - 1) + d[n].QTDE

SumQtde(d) == SumQtdeTo(d, Len(d))

\* groupby(keys)["QTDE"].last() in place of .sum().
GroupLast(d, keys) ==
    { [f \in keys \cup {"QTDE"} |->
          IF f = "QTDE"
          THEN LET g == SelectSeq(d, LAMBDA r : \A h \in keys : r[h] = k[h])
               IN  g[Len(g)].QTDE
          ELSE k[f]] :
      k \in {Restrict(d[i], keys) : i \in 1..Len(d)} }

\* df.groupby(keys)["QTDE"].sum().reset_index(): one record per distinct
\* combination of the key columns, carrying the keys and the summed QTDE.
GroupSum(d, keys) ==
    { [f \in keys \cup {"QTDE"} |->
          IF f = "QTDE"
          THEN SumQtde(SelectSeq(d, LAMBDA r : \A g \in keys : r[g] = k[g]))
          ELSE k[f]] :
      k \in {Restrict(d[i], keys) : i \in 1..Len(d)} }

\* Sum of the QTDE column of a grouped frame.
\* total_summary.loc[total_summary["TIPO"] == tipo, "QTDE"].sum(): the
\* frame is grouped by TIPO, so the selection holds one row or none.
TotalOf(total_summary, tipo) ==
    LET hit == {g \in total_summary : g.TIPO = tipo}
    IN  IF hit = {} THEN 0 ELSE (CHOOSE g \in hit : TRUE).QTDE

\* -------------------------------------------------------------- CSV export

\* ss[lo] \o ... \o ss[hi], by halves.
RECURSIVE ConcatRange(_, _, _)
ConcatRange(ss, lo, hi) ==
    IF lo > hi THEN <<>>
    ELSE IF lo = hi THEN ss[lo]
    ELSE ConcatRange(ss, lo, (lo + hi) \div 2)
             \o ConcatRange(ss, (lo + hi) \div 2 + 1, hi)

\* "".join(ss)
Concat(ss) == Eager(LAMBDA t : ConcatRange(t, 1, Len(t)), ss)

\* The csv writer's QUOTE_MINIMAL: a cell holding the delimiter, the quote
\* character or a line break is quoted, its quote characters doubled.
DoubleQuotes(s) ==
    Concat([i \in 1..Len(s) |-> IF s[i] = 34 THEN <<34, 34>> ELSE <<s[i]>>])

\* The writer with quoting switched off.
CsvNoQuote(s) == s

CsvQuote(s) ==
    IF \E i \in 1..Len(s) : s[i] \in {44, 34, 10, 13}
    THEN <<34>> \o DoubleQuotes(s) \o <<34>>
    ELSE s

\* A datetime64 cell is written as YYYY-MM-DD.
FormatDate(dt) ==
    ZeroPad(FormatNat(dt[1]), 4) \o <<45>> \o ZeroPad(FormatNat(dt[2]), 2)
        \o <<45>> \o ZeroPad(FormatNat(dt[3]), 2)

\* The text of one cell of the frame.
CellText(r, f) ==
    IF f \in {"QTDE", "YEAR"} THEN FormatNat(r[f])
    ELSE IF f = "DATA" THEN FormatDate(r[f])
    ELSE CsvQuote(r[f])

\* sep.join(cells)
JoinWith(cells, sep) ==
    Concat([i \in 1..Len(cells) |->
               IF i = 1 THEN cells[i] ELSE <<sep>> \o cells[i]])

\* The field a column name stands for.
FieldOf(c) ==
    CHOOSE f \in Range(FileColumns) \cup {"YEAR"} : ColName(f) = c

\* df.to_csv(index=False): a header line and one line per row, cells
\* separated by "," and lines ended by "\n".
ToCsv(d, cols) ==
    LET header == JoinWith([i \in 1..Len(cols) |-> CsvQuote(cols[i])], 44) \o <<10>>
        line(r) == JoinWith([i \in 1..Len(cols) |-> CellText(r, FieldOf(cols[i]))], 44)
                       \o <<10>>
    IN  header \o Concat([i \in 1..Len(d) |-> line(d[i])])

\* str.encode("utf-8") for code points below U+0800.
Utf8Encode(s) ==
    Eager(LAMBDA t : Concat([i \in 1..Len(t) |->
                                IF t[i] < 128 THEN <<t[i]>>
                                ELSE <<192 + (t[i] \div 64), 128 + (t[i] % 64)>>]),
          s)

\* --------------------------------------------------------------- presenter

rowsWidgets ==
    {"metric_eo", "metric_po", "comp_bar_chart", "yearly_bar_chart",
     "drilldown_title", "year_selectbox", "process_bar_chart", "grid_title",
     "grid", "download_button"}

\* A select box that keeps the session's choice whatever the options are.
SelectboxStale(options) ==
    IF session.selectbox.value # 0 THEN session.selectbox.value ELSE options[1]

\* st.selectbox(label, options): the session's choice while the widget is the
\* same one (same options), else the first option.
SelectboxValue(options) ==
    IF session.selectbox.options = options THEN session.selectbox.value
    ELSE options[1]

\* Lines 93-203: the branch taken when filtered_data is not empty.
RenderRows ==
    /\ pc = "render"
    /\ filtered_data # <<>>
    /\ LET total_summary == GroupSum(filtered_data, {"TIPO"})
       IN  /\ total_eo' = TotalOf(total_summary, EO)
           /\ total_po' = TotalOf(total_summary, PO)
    /\ yearly_eo_po' = GroupSum(filtered_data, {"YEAR", "TIPO"})
    /\ yearly_cam_data' = GroupSum(filtered_data, {"YEAR", "TIPO", "CAM"})
    /\ year_options' = SortedInt({g.YEAR : g \in yearly_cam_data'})
    /\ selected_year' = SelectboxValue(year_options')
    /\ session' = [session EXCEPT
                      !.selectbox = [options |-> year_options', value |-> selected_year']]
    /\ year_filtered_data' = SelectSeq(filtered_data, LAMBDA r : r.YEAR = selected_year')
    /\ process_summary' = GroupSum(year_filtered_data', {"PROCESSO_AIP", "TIPO"})
    /\ grid_data' = year_filtered_data'
    /\ download_data' = Utf8Encode(ToCsv(year_filtered_data', columns))
    /\ rendered' = rendered \cup rowsWidgets
    /\ pc' = "done"
    /\ UNCHANGED <<file, data, columns, errors, sidebarVars, filtered_data>>

\* Lines 204-205: st.warning("No data available for the selected filters.")
\* The select box is not created in this run, so its widget state is dropped.
RenderNoData ==
    /\ pc = "render"
    /\ filtered_data = <<>>
    /\ rendered' = rendered \cup {"warning"}
    /\ session' = [session EXCEPT !.selectbox = FreshSession.selectbox]
    /\ pc' = "done"
    /\ UNCHANGED <<file, data, columns, errors, sidebarVars, filtered_data, renderVars>>

\* ------------------------------------------------------------- interaction

\* The script's own variables do not outlive a run.
ResetScript ==
    /\ pc' = "load"
    /\ data' = <<>> /\ columns' = <<>>
    /\ errors' = <<>>
    /\ pi_unique' = <<>> /\ cam_unique' = <<>> /\ nome_coloquial_unique' = <<>>
    /\ year_min' = 0 /\ year_max' = 0
    /\ pi_filter' = {} /\ cam_filter' = {} /\ nome_coloquial_filter' = {}
    /\ year_range' = <<0, 0>>
    /\ filtered_data' = <<>>
    /\ total_eo' = 0 /\ total_po' = 0
    /\ yearly_eo_po' = {} /\ yearly_cam_data' = {}
    /\ year_options' = <<>> /\ selected_year' = 0
    /\ year_filtered_data' = <<>> /\ process_summary' = {}
    /\ grid_data' = <<>> /\ download_data' = <<>>
    /\ UNCHANGED file

\* A re-run that leaves the elements of the previous run on the page.
RerunKeepingElements == ResetScript /\ UNCHANGED rendered

\* A widget change (or a manual re-run) starts the script again from the
\* top with an empty page: only the session survives.
Rerun == ResetScript /\ rendered' = {}

Toggle(S, v) == IF v \in S THEN S \ {v} ELSE S \cup {v}

\* The user adds or removes one option of the PI multiselect.
ChangePi ==
    /\ pc = "done"
    /\ \E v \in Range(pi_unique) :
          session' = [session EXCEPT !.pi = Toggle(session.pi, v)]
    /\ Rerun

ChangeCam ==
    /\ pc = "done"
    /\ \E v \in Range(cam_unique) :
          session' = [session EXCEPT !.cam = Toggle(session.cam, v)]
    /\ Rerun

ChangeNome ==
    /\ pc = "done"
    /\ \E v \in Range(nome_coloquial_unique) :
          session' = [session EXCEPT !.nome = Toggle(session.nome, v)]
    /\ Rerun

\* The user moves the slider to another range within its bounds.
ChangeYearRange ==
    /\ pc = "done"
    /\ \E lo \in year_min..year_max : \E hi \in lo..year_max :
          /\ <<lo, hi>> # session.slider
          /\ session' = [session EXCEPT !.slider = <<lo, hi>>]
    /\ Rerun

\* The user picks another year in the drill-down select box.
ChangeSelectedYear ==
    /\ pc = "done"
    /\ "year_selectbox" \in rendered
    /\ \E y \in Range(year_options) :
          /\ y # selected_year
          /\ session' = [session EXCEPT !.selectbox.value = y]
    /\ Rerun

\* The user re-runs the script after a run that stopped or failed.
RerunAfterFailure ==
    /\ pc \in {"stopped", "crashed"}
    /\ UNCHANGED session
    /\ Rerun

Next ==
    \/ LoadFileNotFound
    \/ LoadException
    \/ LoadOk
    \/ MissingColumns
    \/ ColumnsOk
    \/ ParseOk
    \/ ParseError
    \/ Sidebar
    \/ SidebarNoRows
    \/ Filter
    \/ RenderRows
    \/ RenderNoData
    \/ ChangePi
    \/ ChangeCam
    \/ ChangeNome
    \/ ChangeYearRange
    \/ ChangeSelectedYear
    \/ RerunAfterFailure

Spec == Init /\ [][Next]_vars

\* ===================================================================
\* Properties
\* ===================================================================

\* A row passes the given selections: its year lies in the range and, for
\* each categorical selection that is not empty, its value is selected.
Selected(r, pi, cam, nome, yr) ==
    /\ yr[1] <= r.YEAR /\ r.YEAR <= yr[2]
    /\ (pi = {} \/ r.PI \in pi)
    /\ (cam = {} \/ r.CAM \in cam)
    /\ (nome = {} \/ r.NOME_COLOQUIAL \in nome)

\* The run has computed filtered_data.
Filtered == pc \in {"render", "done"}

\* The run rendered the "rows present" branch.
RowsShown == pc = "done" /\ "metric_eo" \in rendered

DefaultSelections ==
    /\ pi_filter = {} /\ cam_filter = {} /\ nome_coloquial_filter = {}
    /\ year_range = <<year_min, year_max>>

\* One categorical mask, skipped when its selection is empty.
MaskBy(d, f) ==
    LET selection == CASE f = "PI" -> pi_filter
                       [] f = "CAM" -> cam_filter
                       [] f = "NOME_COLOQUIAL" -> nome_coloquial_filter
    IN  IF selection = {} THEN d ELSE IsIn(d, f, selection)

FilterOrders ==
    {o \in [1..3 -> {"PI", "CAM", "NOME_COLOQUIAL"}] : Cardinality(Range(o)) = 3}

\* C1: once a run has filtered, the filtered rows are exactly the loaded rows
\* whose YEAR lies in the selected range and whose PI, CAM and NOME_COLOQUIAL
\* are each in the corresponding selection when that selection is not empty;
\* applying the categorical masks in any of the six orders gives the same rows.
C1_FilterExact ==
    Filtered =>
        /\ Range(filtered_data) =
              {r \in Range(data) :
                  Selected(r, pi_filter, cam_filter, nome_coloquial_filter, year_range)}
        /\ \A o \in FilterOrders :
              MaskBy(MaskBy(MaskBy(YearMask(data, year_range), o[1]), o[2]), o[3])
                  = filtered_data

\* A filtered run in which one selection is active and drops a row while an
\* empty selection drops none.
C1_Witness ==
    /\ pc = "done"
    /\ pi_filter # {} /\ nome_coloquial_filter = {}
    /\ filtered_data # <<>>
    /\ Len(filtered_data) < Len(data)

\* C2 as stated: with the default selections, the QTDE total of all loaded
\* rows equals the "Total EO" metric plus the "Total PO" metric.
C2_TotalIsEoPlusPo ==
    (pc = "done" /\ DefaultSelections) =>
        /\ {"metric_eo", "metric_po"} \subseteq rendered
        /\ SumQtde(data) = total_eo + total_po

\* C2 amended: the same, for files in which every row's TIPO is EO or PO.
C2_TotalIsEoPlusPoForTwoTypes ==
    (pc = "done" /\ DefaultSelections /\ \A i \in 1..Len(data) : data[i].TIPO \in {EO, PO}) =>
        /\ {"metric_eo", "metric_po"} \subseteq rendered
        /\ SumQtde(data) = total_eo + total_po

\* The example of the specification: an EO row of 5 and a PO row of 3 in
\* the same year, no filter: EO=5, PO=3 and one bar pair.
C2_Witness ==
    /\ pc = "done" /\ DefaultSelections
    /\ Len(data) = 2
    /\ total_eo = 5 /\ total_po = 3
    /\ Cardinality(yearly_eo_po) = 2
    /\ Cardinality({g.YEAR : g \in yearly_eo_po}) = 1

\* No loaded row passes the session's selections (the slider at its default
\* stands for the full range).
NoRowMatches ==
    \A i \in 1..Len(data) :
        ~Selected(data[i], session.pi, session.cam, session.nome,
                  IF session.slider = <<>>
                  THEN <<MinOf(Column(data, "YEAR")), MaxOf(Column(data, "YEAR"))>>
                  ELSE session.slider)

\* The run is over and the loader did not stop it.
RunEnded == pc \in {"done", "crashed"}

\* C3: a run whose selections match no row ends with the warning and none of
\* the metrics, charts, select box, grid or download button; a run with a
\* matching row ends with all of those and without the warning.
C3_NoDataState ==
    RunEnded =>
        IF NoRowMatches
        THEN "warning" \in rendered /\ rendered \cap rowsWidgets = {}
        ELSE "warning" \notin rendered /\ rowsWidgets \subseteq rendered

\* The same for the runs that reach the filter stage, which every run on a
\* file with at least one row does.
C3_NoDataStateWhenRowsLoaded ==
    pc = "done" =>
        IF NoRowMatches
        THEN "warning" \in rendered /\ rendered \cap rowsWidgets = {}
        ELSE "warning" \notin rendered /\ rowsWidgets \subseteq rendered

\* The script has touched the dates: a YEAR column exists.
DatesTouched ==
    \/ ColName("YEAR") \in Range(columns)
    \/ \E i \in 1..Len(data) : "YEAR" \in DOMAIN data[i]

\* C4: when the file loads and its header, blanks stripped, lacks exactly one
\* required column, the run stops at column validation with one error naming
\* that column alone, and no date has been parsed.
C4_MissingColumnNamed ==
    (pc \notin {"load", "validate"} /\ file.kind = "csv") =>
        \A lacking \in {Range(FileColumns) \ FieldsOf(file.header)} :
            \A f \in lacking :
                lacking = {f} =>
                    /\ pc = "stopped"
                    /\ errors = <<[kind |-> "missing_columns", columns |-> <<f>>]>>
                    /\ ~DatesTouched

\* A stopped run on a file that lacks DATA only, written with padded names
\* and holding a data row.
C4_Witness ==
    /\ pc = "stopped"
    /\ file.kind = "csv"
    /\ Range(FileColumns) \ FieldsOf(file.header) = {"DATA"}
    /\ file.header[1][1] = 32
    /\ file.rows # <<>>
    /\ errors = <<[kind |-> "missing_columns", columns |-> <<"DATA">>]>>

\* The loader cannot succeed on this file, and why.
LoaderFailure ==
    IF file.kind = "absent" THEN "file_not_found"
    ELSE IF file.kind = "unreadable" THEN "load_failed"
    ELSE IF ~(Range(FileColumns) \subseteq FieldsOf(file.header)) THEN "missing_columns"
    ELSE IF \E i \in 1..Len(file.rows) : ~ParseDate(file.rows[i].DATA).ok
         THEN "parse_failed"
    ELSE "none"

\* C5: a run on a file the loader fails on never leaves the loader except by
\* stopping, shows exactly one error (of the failure's kind) and nothing
\* else, and no run past the loader works on less than the whole file.
C5_LoaderFailureTerminal ==
    /\ \A failure \in {LoaderFailure} :
          /\ failure # "none" =>
                /\ pc \in {"load", "validate", "parse", "stopped"}
                /\ rendered \subseteq {"error"}
                /\ filtered_data = <<>>
          /\ pc = "stopped" =>
                /\ Len(errors) = 1
                /\ errors[1].kind = failure
                /\ rendered = {"error"}
    /\ pc \in {"sidebar", "filter", "render", "done", "crashed"} =>
          /\ errors = <<>>
          /\ Len(data) = Len(file.rows)
          /\ \A i \in 1..Len(data) : "YEAR" \in DOMAIN data[i]

\* A run stopped by a date that does not parse, in a file whose other row
\* has a good date.
C5_Witness ==
    /\ pc = "stopped"
    /\ LoaderFailure = "parse_failed"
    /\ \E i \in 1..Len(file.rows) : ParseDate(file.rows[i].DATA).ok

InRange(y, yr) == yr[1] <= y /\ y <= yr[2]

\* Aggregate first: the (YEAR, TIPO) sums of all of d, then the groups whose
\* YEAR lies in the range.
AggregateThenFilter(d, yr) ==
    { [YEAR |-> k[1], TIPO |-> k[2],
       QTDE |-> SumQtde(SelectSeq(d, LAMBDA r : r.YEAR = k[1] /\ r.TIPO = k[2]))] :
      k \in {<<d[i].YEAR, d[i].TIPO>> : i \in {j \in 1..Len(d) : InRange(d[j].YEAR, yr)}} }

\* C6: the program's filter-then-aggregate equals aggregate-then-filter: the
\* (YEAR, TIPO) sums of the year-masked rows are the sums over the whole
\* dataset restricted to the years of the range; with no categorical
\* selection that is the chart's table yearly_eo_po.
C6_GroupingCommutesWithYearFilter ==
    /\ Filtered =>
          GroupSum(YearMask(data, year_range), {"YEAR", "TIPO"})
              = AggregateThenFilter(data, year_range)
    /\ (RowsShown /\ pi_filter = {} /\ cam_filter = {} /\ nome_coloquial_filter = {}) =>
          yearly_eo_po = AggregateThenFilter(data, year_range)

\* A chart drawn with no categorical selection and a year range that cuts
\* rows off.
C6_Witness ==
    /\ RowsShown
    /\ pi_filter = {} /\ cam_filter = {} /\ nome_coloquial_filter = {}
    /\ year_range # <<year_min, year_max>>
    /\ Len(filtered_data) < Len(data)
    /\ yearly_eo_po # {}

\* bytes.decode("utf-8") for code points below U+0800: a byte below 128 is
\* itself, a lead byte takes the six low bits of the byte after it, a
\* continuation byte yields nothing of its own.
Utf8Decode(b) ==
    Concat([i \in 1..Len(b) |->
               IF b[i] < 128 THEN <<b[i]>>
               ELSE IF b[i] >= 192 THEN <<(b[i] - 192) * 64 + (b[i + 1] - 128)>>
               ELSE <<>>])

\* What a CSV reader makes of a quoted cell: the outer quotes go and each
\* doubled quote becomes one (a quote is dropped when an odd number of
\* quotes precede it inside the cell).
Unquote(c) ==
    IF c # <<>> /\ c[1] = 34
    THEN LET inner == SubSeq(c, 2, Len(c) - 1)
             quotes == {j \in 1..Len(inner) : inner[j] = 34}
         IN  Concat([j \in 1..Len(inner) |->
                        IF inner[j] = 34 /\ Cardinality({q \in quotes : q < j}) % 2 = 1
                        THEN <<>> ELSE <<inner[j]>>])
    ELSE c

\* The text between consecutive cut positions, ends included as cuts.
Pieces(t, from, to, cuts) ==
    LET marks == SortedInt({from - 1, to + 1} \cup cuts)
    IN  [p \in 1..(Len(marks) - 1) |-> SubSeq(t, marks[p] + 1, marks[p + 1] - 1)]

\* A reader for "," separated text with '"' quoting: a "," or a line break
\* separates only outside quotes, that is after an even number of quotes.
\* The result is the sequence of lines, each a sequence of cells.
ReadCsvText(t) ==
    LET quotes == {j \in 1..Len(t) : t[j] = 34}
        outside(i) == Cardinality({q \in quotes : q < i}) % 2 = 0
        breaks == SortedInt({i \in 1..Len(t) : t[i] = 10 /\ outside(i)})
        commas == {i \in 1..Len(t) : t[i] = 44 /\ outside(i)}
        first(k) == IF k = 1 THEN 1 ELSE breaks[k - 1] + 1
    IN  [k \in 1..Len(breaks) |->
            LET cells == Pieces(t, first(k), breaks[k] - 1,
                                {i \in commas : first(k) <= i /\ i < breaks[k]})
            IN  [c \in 1..Len(cells) |-> Unquote(cells[c])]]

ReadCsv(bytes) == Eager(ReadCsvText, Utf8Decode(bytes))

\* The re-parse succeeds (every line has as many cells as the header line)
\* and gives the rows in `d`, in order, with their QTDE.
RoundTrips(table, d) ==
    /\ Len(table) = Len(d) + 1
    /\ \A k \in 1..Len(table) : Len(table[k]) = Len(table[1])
    /\ \E q \in 1..Len(table[1]) :
          /\ table[1][q] = ColName("QTDE")
          /\ \A i \in 1..Len(d) :
                /\ AllDigits(table[i + 1][q])
                /\ ParseNat(table[i + 1][q]) = d[i].QTDE

\* C7: the bytes handed to the download button, decoded and read back as
\* comma-separated text, give as many rows as the detail table shows and,
\* row by row in the same order, the same QTDE.
C7_CsvRoundTrip ==
    RowsShown => \A table \in {ReadCsv(download_data)} : RoundTrips(table, grid_data)

\* An export of two rows, one of them with a cell that needs quoting and one
\* with a character outside ASCII.
C7_Witness ==
    /\ RowsShown
    /\ Len(grid_data) = 2
    /\ \E i \in 1..2 : 44 \in Range(grid_data[i].NOME_COLOQUIAL)
    /\ \E i \in 1..2 : \E c \in Range(grid_data[i].PROCESSO_AIP) : c > 127
    /\ grid_data[1].QTDE # grid_data[2].QTDE

\* s is strictly ascending in Python's string order.
Ascending(s) == \A i \in 1..(Len(s) - 1) : LexLess(s[i], s[i + 1])

\* C8: the options of the three multiselects and the bounds of the slider
\* are those of the whole loaded dataset whatever is selected: every distinct
\* value of the column, once, in ascending order (for CAM: B001 first when
\* present, the rest ascending), and the least and greatest year.
C8_OptionsFromFullData ==
    "year_slider" \in rendered =>
        /\ Len(data) = Len(file.rows)
        /\ Range(pi_unique) = {data[i].PI : i \in 1..Len(data)}
        /\ Ascending(pi_unique)
        /\ Range(cam_unique) = {data[i].CAM : i \in 1..Len(data)}
        /\ Cardinality(Range(cam_unique)) = Len(cam_unique)
        /\ B001 \in Range(cam_unique) => cam_unique[1] = B001
        /\ Ascending(SelectSeq(cam_unique, LAMBDA c : c # B001))
        /\ Range(nome_coloquial_unique) =
              {data[i].NOME_COLOQUIAL : i \in 1..Len(data)}
        /\ Ascending(nome_coloquial_unique)
        /\ \E i \in 1..Len(data) : data[i].YEAR = year_min
        /\ \E i \in 1..Len(data) : data[i].YEAR = year_max
        /\ \A i \in 1..Len(data) : year_min <= data[i].YEAR /\ data[i].YEAR <= year_max

\* A run in which the CAM selection and the year range are narrowed and the
\* PI options still hold a value no filtered row has; B001 is pinned ahead
\* of a CAM that sorts before it.
C8_Witness ==
    /\ pc = "done"
    /\ cam_filter # {}
    /\ year_range # <<year_min, year_max>>
    /\ \E v \in Range(pi_unique) : v \notin Column(filtered_data, "PI")
    /\ Len(cam_unique) = 2 /\ cam_unique[1] = B001

\* The loaded rows that pass the session's selections, by index.
MatchingRows ==
    {data[i].idx : i \in {j \in 1..Len(data) :
        Selected(data[j], session.pi, session.cam, session.nome, session.slider)}}

pageOfNoRows == sidebarWidgets \cup {"year_slider", "main_title", "warning"}

pageOfRows == sidebarWidgets \cup {"year_slider", "main_title"} \cup rowsWidgets

\* C9: what a finished run shows is a function of the loaded rows and the
\* current selections alone: the filtered rows are the loaded rows passing
\* the selections, and the page is the "no rows" page when there are none
\* and the "rows present" page otherwise, with nothing left from earlier runs.
C9_StateFromCurrentSelections ==
    pc = "done" =>
        \A matching \in {MatchingRows} :
            /\ Column(filtered_data, "idx") = matching
            /\ rendered = IF matching = {} THEN pageOfNoRows ELSE pageOfRows

\* A run about to render rows whose predecessor rendered none (the select
\* box state was dropped) after selections were made in a run with rows:
\* rows present, then no rows, then rows present again.
C9_Witness ==
    /\ pc = "render"
    /\ filtered_data # <<>>
    /\ session.selectbox.options = <<>>
    /\ session.pi # {}

RECURSIVE SumOfGroups(_)
SumOfGroups(G) ==
    IF G = {} THEN 0
    ELSE LET g == CHOOSE x \in G : TRUE IN g.QTDE + SumOfGroups(G \ {g})

====
